---- MODULE Spec2Model ----
(***************************************************************************)
(* Model of src/main.py: the FastAPI service with four job-backed          *)
(* endpoints (video download, QR generation, text-to-speech, background    *)
(* removal), the shared ThreadPoolExecutor, the asyncio event loop that    *)
(* runs the handlers, the temp directory the handlers write to, and the    *)
(* atexit sweep cleanup_temp_files.                                        *)
(*                                                                         *)
(* Strings are sequences of tokens: a message is the concatenation of its  *)
(* tokens, `x in s` is a contiguous-subsequence test and s.lower() maps    *)
(* Lower over the tokens.  A path is a sequence of components below        *)
(* tempfile.gettempdir(), each component a sequence of tokens.             *)
(* CancelledError is a BaseException (Python >= 3.8, which FastAPI         *)
(* requires): `except Exception` does not catch it.                        *)
(***************************************************************************)
EXTENDS Integers, Sequences, FiniteSets, TLC

\* ------------------------------------------------------------ bounds
NumReqs == 3
MaxDownloads == 1
TickStep == 3601
MaxTicks == 1

\* --------------------------------------------------- program constants
max_workers == 2
DEADLINE == 120
MAX_DURATION == 600
MAX_AGE == 3600
SIZE_LIMIT == 100 * 1024 * 1024
MAX_TTS_TEXT == 5000
MAX_QR_TEXT == 2000
MAX_UPLOAD == 10 * 1024 * 1024

Reqs == 1..NumReqs

VARIABLES
  pc,         \* position of each request's handler coroutine
  kind,       \* endpoint of each request
  status,     \* HTTP status of the outcome handed to the caller (0: none yet)
  detail,     \* detail message of the HTTPException handed to the caller
  start,      \* start_time of download_video
  fs,         \* entries existing below tempfile.gettempdir()
  queue,      \* the executor's work queue (FIFO)
  fut,        \* state of the request's executor future
  result,     \* what the work function returned or raised
  produced,   \* what the extractor reported and wrote for the request
  loopOwner,  \* request whose handler holds the event loop thread (0: free)
  clock,      \* time.time()
  exited,     \* the interpreter has exited and atexit has run
  cleanups,   \* times the response's cleanup block has run
  exitPath,   \* how the transmission of the response ended
  abandoned   \* state of the future when the request's task was cancelled

vars == <<pc, kind, status, detail, start, fs, queue, fut, result, produced,
          loopOwner, clock, exited, cleanups, exitPath, abandoned>>

\* ------------------------------------------------------------ strings
Lower(w) ==
  CASE w = "Video" -> "video"
    [] w = "Unsupported" -> "unsupported"
    [] w = "Copyright" -> "copyright"
    [] w = "Download" -> "download"
    [] w = "Downloaded" -> "downloaded"
    [] w = "URL" -> "url"
    [] w = "HTTP" -> "http"
    [] w = "Error" -> "error"
    [] w = "Read" -> "read"
    [] w = "Timeout" -> "timeout"
    [] w = "FaceBook.com" -> "facebook.com"
    [] OTHER -> w

LowerStr(s) == [i \in DOMAIN s |-> Lower(s[i])]

Contains(needle, s) ==
  \E i \in 1..(Len(s) - Len(needle) + 1) :
    SubSeq(s, i, i + Len(needle) - 1) = needle

\* ---------------------------------------------------------- file system
\* The random suffix mkdtemp and NamedTemporaryFile give a name: one per request.
Suffix(j) == <<"a", "b", "c", "d", "e", "f">>[j]

tmpdir(j) == << <<"video_download_", Suffix(j)>> >>
downloaded_path(j) == << <<"video_download_", Suffix(j)>>, <<"title", ".ext">> >>
part_path(j) == << <<"video_download_", Suffix(j)>>, <<"title", ".ext", ".part">> >>
other_path(j) == << <<"video_download_", Suffix(j)>>, <<"title", ".mkv">> >>
temp_file_path(j) == << <<"tmp", Suffix(j)>> >>

IsPrefix(p, q) == Len(p) <= Len(q) /\ SubSeq(q, 1, Len(p)) = p

Exists(f, p) == \E e \in f : e.path = p
IsFile(f, p) == \E e \in f : e.path = p /\ e.type = "file"
IsDir(f, p) == \E e \in f : e.path = p /\ e.type = "dir"
Unlink(f, p) == {e \in f : e.path # p}
Rmtree(f, p) == {e \in f : ~IsPrefix(p, e.path)}
\* mtime is kept for the entries directly below the temp directory, the only
\* ones whose mtime the program reads (line 547).
File(p, t, n) ==
  [path |-> p, type |-> "file", mtime |-> IF Len(p) = 1 THEN t ELSE 0, size |-> n]
Dir(p) == [path |-> p, type |-> "dir", mtime |-> 0, size |-> 0]
GetSize(f, p) == (CHOOSE e \in f : e.path = p).size

\* ------------------------------------------------ the work function
\* What yt_dlp can do for one call of download_video_sync: fail in
\* extract_info(download=False), report metadata, fail while downloading
\* (leaving a partial file), or write a file of some size (size -1: no file
\* at the path prepare_filename gives).
ErrMsgs ==
  { <<"ERROR:", "Video", "unavailable">>,
    <<"ERROR:", "Unsupported", "URL", ":", "x">>,
    <<"ERROR:", "Copyright", "claim">>,
    <<"Read", "timeout">>,
    <<"unable", "to", "open", "/tmp/", "video_download_", "for", "writing">> }

DownloadError(m) == [class |-> "DownloadError", msg |-> m]
OtherError(m) == [class |-> "Exception", msg |-> m]
NoErr == [class |-> "none", msg |-> <<>>]

Errs ==
  {DownloadError(m) : m \in ErrMsgs}
  \cup {OtherError(<<"unable", "to", "open", "/tmp/", "video_download_", "for", "writing">>)}

Info(d, fz, fa, n) ==
  [duration |-> d, filesize |-> fz, filesize_approx |-> fa, size |-> n]

WorkInputs ==
  {[stage |-> "extract", err |-> e, info |-> Info(0, 0, 0, -1)] : e \in Errs}
  \cup {[stage |-> "download", err |-> DownloadError(<<"Read", "timeout">>),
          info |-> Info(0, 0, 0, -1)]}
  \cup {[stage |-> "none", err |-> NoErr, info |-> Info(d, 0, 0, SIZE_LIMIT)] :
          d \in {MAX_DURATION, MAX_DURATION + 1}}
  \cup {[stage |-> "none", err |-> NoErr, info |-> Info(0, fz, fa, SIZE_LIMIT)] :
          fz \in {0, SIZE_LIMIT + 1}, fa \in {0, SIZE_LIMIT + 1}}
  \cup {[stage |-> "none", err |-> NoErr, info |-> Info(0, fz, 0, n)] :
          fz \in {0, SIZE_LIMIT}, n \in {-1, 0, SIZE_LIMIT, SIZE_LIMIT + 1}}

Raise(f, m, p) == [raised |-> TRUE, class |-> "Exception", msg |-> m, fs |-> f, produced |-> p]
Return(f, p) == [raised |-> FALSE, class |-> "none", msg |-> <<>>, fs |-> f, produced |-> p]

\* The checks without the one on the size of the file.
VerifyDownloadedNoLimit(f, j, p) ==
  IF ~Exists(f, downloaded_path(j))
    THEN Raise(f, <<"Downloaded", "file", "not", "found">>, p)
  ELSE IF GetSize(f, downloaded_path(j)) = 0
    THEN Raise(f, <<"Downloaded", "file", "is", "empty">>, p)
  ELSE Return(f, p)

\* Lines 146-157: the checks on the file the download wrote.
VerifyDownloaded(f, j, p) ==
  IF ~Exists(f, downloaded_path(j))
    THEN Raise(f, <<"Downloaded", "file", "not", "found">>, p)
  ELSE IF GetSize(f, downloaded_path(j)) = 0
    THEN Raise(f, <<"Downloaded", "file", "is", "empty">>, p)
  ELSE IF GetSize(f, downloaded_path(j)) > SIZE_LIMIT
    THEN Raise(Unlink(f, downloaded_path(j)), <<"Downloaded", "file", "too", "large">>, p)
  ELSE Return(f, p)

\* Lines 127-157: the body of the try block; a library failure keeps its class.
TryBody(f, j, now, in) ==
  LET info == in.info
      filesize == IF info.filesize # 0 THEN info.filesize ELSE info.filesize_approx
      none == [meta |-> 0, size |-> -1]
      p == [meta |-> filesize, size |-> info.size]
      written == IF info.size >= 0
                   THEN f \cup {File(downloaded_path(j), now, info.size)}
                   ELSE f \cup {File(other_path(j), now, 10)}
  IN  IF in.stage = "extract"
        THEN [Raise(f, in.err.msg, none) EXCEPT !.class = in.err.class]
      ELSE IF info.duration # 0 /\ info.duration > MAX_DURATION
        THEN Raise(f, <<"Video", "too", "long", "(max", "10", "minutes", "allowed)">>, none)
      ELSE IF filesize # 0 /\ filesize > SIZE_LIMIT
        THEN Raise(f, <<"Video", "file", "too", "large", "(max", "100MB)">>,
                   [meta |-> filesize, size |-> -1])
      ELSE IF in.stage = "download"
        THEN [Raise(f \cup {File(part_path(j), now, 10)}, in.err.msg, none)
                EXCEPT !.class = in.err.class]
      ELSE VerifyDownloaded(written, j, p)

\* Lines 159-170: the except clauses.
download_video_sync(f, j, now, in) ==
  LET r == TryBody(f, j, now, in)
  IN  IF r.raised /\ r.class = "DownloadError"
        THEN IF Contains(<<"Video", "unavailable">>, r.msg)
               THEN Raise(r.fs, <<"Video", "is", "unavailable", "or", "private">>, r.produced)
             ELSE IF Contains(<<"Unsupported", "URL">>, r.msg)
               THEN Raise(r.fs, <<"Unsupported", "video", "site", "or", "URL", "format">>, r.produced)
             ELSE IF Contains(<<"Copyright">>, r.msg)
               THEN Raise(r.fs, <<"Video", "is", "copyright", "ed", "and", "cannot",
                                  "be", "downloaded">>, r.produced)
             ELSE Raise(r.fs, <<"Download", "failed:">> \o r.msg, r.produced)
      ELSE IF r.raised
        THEN Raise(r.fs, r.msg, r.produced)
      ELSE r

\* ------------------------------------------------ download_video helpers
HTTPException(code, text) == [status |-> code, detail |-> text]

\* Lines 219-225: the URL checks; NoError when the URL passes.
NoError == HTTPException(0, <<>>)

Urls ==
  { <<"https://", "youtube.com", "/watch">>,
    <<"http://", "vimeo.com", "/1">>,
    <<"ftp://", "youtube.com", "/watch">>,
    <<"youtube.com", "/watch">>,
    <<"https://", "facebook.com", "/v">>,
    <<"https://", "FaceBook.com", "/v">>,
    <<"https://", "m.", "tiktok.com", "/v">>,
    <<"https://", "example.com", "/?u=", "facebook.com">> }

StartsWith(s, prefixes) == Len(s) >= 1 /\ s[1] \in prefixes

blocked_patterns == { <<"facebook.com">>, <<"tiktok.com">> }

\* The URL checks without the one on blocked_patterns.
ValidateUrlSchemeOnly(url) ==
  IF ~StartsWith(url, {"http://", "https://"})
    THEN HTTPException(400, <<"Invalid", "URL", "format">>)
  ELSE NoError

ValidateUrl(url) ==
  IF ~StartsWith(url, {"http://", "https://"})
    THEN HTTPException(400, <<"Invalid", "URL", "format">>)
  ELSE IF \E pattern \in blocked_patterns : Contains(pattern, LowerStr(url))
    THEN HTTPException(400, <<"This", "platform", "is", "not", "supported">>)
  ELSE NoError

\* Lines 245-263: the failure of the work function, or of the deadline check,
\* turned into the HTTPException the caller gets.
ClassifyError(error_msg) ==
  LET low == LowerStr(error_msg)
  IN  IF Contains(<<"timeout">>, low)
        THEN HTTPException(408, <<"Download", "timeout", "-", "please", "try", "a",
                                  "shorter", "video">>)
      ELSE IF Contains(<<"too", "large">>, low)
        THEN HTTPException(413, <<"Video", "file", "is", "too", "large", "(max", "100MB)">>)
      ELSE IF Contains(<<"too", "long">>, low)
        THEN HTTPException(413, <<"Video", "is", "too", "long", "(max", "10", "minutes)">>)
      ELSE IF Contains(<<"unavailable">>, low)
        THEN HTTPException(404, <<"Video", "is", "unavailable", "or", "private">>)
      ELSE IF Contains(<<"unsupported">>, low)
        THEN HTTPException(400, <<"Unsupported", "video", "site", "or", "URL", "format">>)
      ELSE IF Contains(<<"copyright">>, low)
        THEN HTTPException(403, <<"Video", "is", "copyright", "ed", "and", "cannot", "be",
                                  "downloaded">>)
      ELSE HTTPException(400, <<"Download", "failed:">> \o error_msg)

TimeoutMsg == <<"Download", "timeout", "-", "video", "processing", "took", "too", "long">>

\* Line 242: the deadline check, made once the work function has returned.
DeadlineExceeded(now, start_time) == now - start_time > DEADLINE

\* Lines 310-334: the cleanup both except clauses of download_video make.
ErrorCleanup(f, j, has_temp, has_tmpdir) ==
  LET f1 == IF has_temp /\ Exists(f, temp_file_path(j)) THEN Unlink(f, temp_file_path(j)) ELSE f
  IN  IF has_tmpdir /\ Exists(f1, tmpdir(j)) THEN Rmtree(f1, tmpdir(j)) ELSE f1

\* ------------------------------------------------ the response's cleanup
\* os.unlink and shutil.rmtree raise when the path is not there.
OsUnlink(f, p) == [fs |-> Unlink(f, p), err |-> ~IsFile(f, p)]
OsRmtree(f, p) == [fs |-> Rmtree(f, p), err |-> ~IsDir(f, p)]

\* A cleanup with neither the os.path.exists test nor the except clause.
CleanupOneUnguarded(f, p) ==
  LET r == IF IsDir(f, p) THEN OsRmtree(f, p) ELSE OsUnlink(f, p)
  IN  [fs |-> r.fs, raised |-> r.err, warned |-> FALSE]

\* Lines 293-300: one path of cleanup_paths; the except clause logs a
\* failure, so nothing is raised.
CleanupOne(f, p) ==
  LET r == IF Exists(f, p)
             THEN IF IsFile(f, p) THEN OsUnlink(f, p)
                  ELSE IF IsDir(f, p) THEN OsRmtree(f, p)
                  ELSE [fs |-> f, err |-> FALSE]
             ELSE [fs |-> f, err |-> FALSE]
  IN  [fs |-> r.fs, raised |-> FALSE, warned |-> r.err]

RECURSIVE CleanupPaths(_, _)
\* Lines 292-300: the finally block of download_video's CleanupFileResponse.
CleanupPaths(f, paths) ==
  IF paths = <<>>
    THEN [fs |-> f, raised |-> FALSE, warned |-> FALSE]
    ELSE LET one == CleanupOne(f, Head(paths))
             rest == CleanupPaths(one.fs, Tail(paths))
         IN  [fs |-> rest.fs, raised |-> one.raised \/ rest.raised,
              warned |-> one.warned \/ rest.warned]

\* Lines 416-420: the finally block of text_to_speech's CleanupFileResponse.
CleanupPath(f, cleanup_path) ==
  IF Exists(f, cleanup_path)
    THEN LET r == OsUnlink(f, cleanup_path)
         IN  [fs |-> r.fs, raised |-> FALSE, warned |-> r.err]
    ELSE [fs |-> f, raised |-> FALSE, warned |-> FALSE]

\* The paths a request's response cleans: cleanup_paths (line 307),
\* cleanup_path (line 427).
cleanup_paths(j, k) ==
  IF k = "download" THEN <<temp_file_path(j), tmpdir(j)>> ELSE <<temp_file_path(j)>>

ResponseCleanup(f, j, k) ==
  IF k = "download" THEN CleanupPaths(f, cleanup_paths(j, k))
  ELSE CleanupPath(f, temp_file_path(j))

\* A cleanup placed after super().__call__ instead of in a finally clause.
RunsAfterCompleteOnly(exit) == exit = "complete"

\* try/finally of __call__ (lines 288-290, 412-414): the cleanup block runs
\* however super().__call__ ends.
FinallyRuns(exit) == exit \in {"complete", "disconnect", "send_error"}

\* ------------------------------------------------ the atexit sweep
\* glob.glob(os.path.join(tempfile.gettempdir(), "tmp*")), line 540-541.
GlobTmp(f) == {e \in f : Len(e.path) = 1 /\ e.path[1][1] = "tmp"}

PathContains(token, path) == \E i \in DOMAIN path : Contains(<<token>>, path[i])

RECURSIVE SweepAll(_, _, _)
\* Lines 543-554: the loop over the globbed entries.
SweepAll(f, entries, now) ==
  IF entries = {} THEN f
  ELSE LET e == CHOOSE x \in entries : TRUE
           f1 == IF IsFile(f, e.path)
                   THEN IF now - e.mtime > MAX_AGE THEN Unlink(f, e.path) ELSE f
                 ELSE IF IsDir(f, e.path) /\ PathContains("video_download_", e.path)
                   THEN Rmtree(f, e.path)
                 ELSE f
       IN  SweepAll(f1, entries \ {e}, now)

cleanup_temp_files(f, now) == SweepAll(f, GlobTmp(f), now)

\* ------------------------------------------------ the executor
Running == {j \in Reqs : fut[j] = "running"}

\* An executor that starts a thread for every call.
WorkerAlwaysAvailable(running) == TRUE

\* ThreadPoolExecutor(max_workers=2), line 67: a queued call starts only on
\* a free worker thread.
WorkerAvailable(running) == Cardinality(running) < max_workers

Remove(q, j) == LET keep(x) == x # j IN SelectSeq(q, keep)

NoResult == [raised |-> FALSE, msg |-> <<>>]
NotProduced == [meta |-> 0, size |-> -1]

\* ------------------------------------------------ Init
Init ==
  /\ pc = [j \in Reqs |-> "idle"]
  /\ kind = [j \in Reqs |-> "none"]
  /\ status = [j \in Reqs |-> 0]
  /\ detail = [j \in Reqs |-> <<>>]
  /\ start = [j \in Reqs |-> 0]
  /\ fs = {}
  /\ queue = <<>>
  /\ fut = [j \in Reqs |-> "none"]
  /\ result = [j \in Reqs |-> NoResult]
  /\ produced = [j \in Reqs |-> NotProduced]
  /\ loopOwner = 0
  /\ clock = 0
  /\ exited = FALSE
  /\ cleanups = [j \in Reqs |-> 0]
  /\ exitPath = [j \in Reqs |-> "none"]
  /\ abandoned = [j \in Reqs |-> "none"]

\* A handler step runs on the event loop thread: only when no handler holds
\* it.  Requests are numbered in the order their handlers start.
LoopFree == loopOwner = 0
CanBegin(j) ==
  /\ ~exited
  /\ LoopFree
  /\ pc[j] = "idle"
  /\ \A i \in Reqs : i < j => pc[i] # "idle"

Fail(j, k, e) ==
  /\ pc' = [pc EXCEPT ![j] = "failed"]
  /\ kind' = [kind EXCEPT ![j] = k]
  /\ status' = [status EXCEPT ![j] = e.status]
  /\ detail' = [detail EXCEPT ![j] = e.detail]

\* ------------------------------------------------ download_video
\* Lines 211-239: up to the await of run_in_executor.
DownloadBegin(j, url) ==
  /\ CanBegin(j)
  /\ Cardinality({i \in Reqs : kind[i] = "download"}) < MaxDownloads
  /\ start' = [start EXCEPT ![j] = clock]
  /\ LET v == ValidateUrl(url)
     IN  IF v.status # 0
           THEN /\ Fail(j, "download", v)
                /\ fs' = ErrorCleanup(fs, j, FALSE, FALSE)
                /\ UNCHANGED <<queue, fut>>
           ELSE /\ pc' = [pc EXCEPT ![j] = "awaiting"]
                /\ kind' = [kind EXCEPT ![j] = "download"]
                /\ fs' = fs \cup {Dir(tmpdir(j))}
                /\ queue' = Append(queue, j)
                /\ fut' = [fut EXCEPT ![j] = "queued"]
                /\ UNCHANGED <<status, detail>>
  /\ UNCHANGED <<result, produced, loopOwner, clock, exited, cleanups, exitPath, abandoned>>

\* A worker thread takes the next call off the queue.
WorkerStart(j) ==
  /\ ~exited
  /\ fut[j] = "queued"
  /\ queue # <<>> /\ Head(queue) = j
  /\ WorkerAvailable(Running)
  /\ fut' = [fut EXCEPT ![j] = "running"]
  /\ queue' = Tail(queue)
  /\ UNCHANGED <<pc, kind, status, detail, start, fs, result, produced,
                 loopOwner, clock, exited, cleanups, exitPath, abandoned>>

\* download_video_sync runs to its end on the worker thread.  What it
\* returned or raised is kept for the handler awaiting it; the result of a
\* call whose handler was cancelled is read by nobody and is not kept.
WorkerDownload(j, in) ==
  /\ ~exited
  /\ fut[j] = "running" /\ kind[j] = "download"
  /\ LET r == download_video_sync(fs, j, clock, in)
     IN  /\ fs' = r.fs
         /\ result' = [result EXCEPT ![j] =
                         IF pc[j] = "cancelled" THEN NoResult
                         ELSE [raised |-> r.raised, msg |-> r.msg]]
         /\ produced' = [produced EXCEPT ![j] = r.produced]
  /\ fut' = [fut EXCEPT ![j] = "done"]
  /\ UNCHANGED <<pc, kind, status, detail, start, queue, loopOwner, clock,
                 exited, cleanups, exitPath, abandoned>>

UnexpectedError == HTTPException(500, <<"An", "unexpected", "error", "occurred">>)

\* A handler that returns the HTTPException of a failed work function
\* instead of raising it: the caller is sent a response carrying the failure.
download_video_returns_error(f, j, now, start_time, res, copy) ==
  IF res.raised
    THEN [ok |-> TRUE, e |-> ClassifyError(res.msg), fs |-> ErrorCleanup(f, j, FALSE, TRUE)]
  ELSE IF DeadlineExceeded(now, start_time)
    THEN [ok |-> FALSE, e |-> ClassifyError(TimeoutMsg), fs |-> ErrorCleanup(f, j, FALSE, TRUE)]
  ELSE IF copy = "mktemp_fails"
    THEN [ok |-> FALSE, e |-> UnexpectedError, fs |-> ErrorCleanup(f, j, FALSE, TRUE)]
  ELSE IF copy = "copy_fails"
    THEN [ok |-> FALSE, e |-> UnexpectedError,
          fs |-> ErrorCleanup(f \cup {File(temp_file_path(j), now, 0)}, j, TRUE, TRUE)]
  ELSE [ok |-> TRUE, e |-> HTTPException(200, <<>>),
        fs |-> f \cup {File(temp_file_path(j), now, GetSize(f, downloaded_path(j)))}]

\* Lines 240-336: download_video from the point the awaited future is done.
\* copy: whether NamedTemporaryFile and shutil.copyfile succeed.
download_video_resume(f, j, now, start_time, res, copy) ==
  IF res.raised
    THEN [ok |-> FALSE, e |-> ClassifyError(res.msg), fs |-> ErrorCleanup(f, j, FALSE, TRUE)]
  ELSE IF DeadlineExceeded(now, start_time)
    THEN [ok |-> FALSE, e |-> ClassifyError(TimeoutMsg), fs |-> ErrorCleanup(f, j, FALSE, TRUE)]
  ELSE IF copy = "mktemp_fails"
    THEN [ok |-> FALSE, e |-> UnexpectedError, fs |-> ErrorCleanup(f, j, FALSE, TRUE)]
  ELSE IF copy = "copy_fails"
    THEN [ok |-> FALSE, e |-> UnexpectedError,
          fs |-> ErrorCleanup(f \cup {File(temp_file_path(j), now, 0)}, j, TRUE, TRUE)]
  ELSE [ok |-> TRUE, e |-> HTTPException(200, <<>>),
        fs |-> f \cup {File(temp_file_path(j), now, GetSize(f, downloaded_path(j)))}]

DownloadResume(j, copy) ==
  /\ ~exited
  /\ LoopFree
  /\ pc[j] = "awaiting" /\ kind[j] = "download" /\ fut[j] = "done"
  /\ LET r == download_video_resume(fs, j, clock, start[j], result[j], copy)
     IN  /\ pc' = [pc EXCEPT ![j] = IF r.ok THEN "responded" ELSE "failed"]
         /\ status' = [status EXCEPT ![j] = r.e.status]
         /\ detail' = [detail EXCEPT ![j] = r.e.detail]
         /\ fs' = r.fs
  /\ fut' = [fut EXCEPT ![j] = "none"]
  /\ result' = [result EXCEPT ![j] = NoResult]
  /\ UNCHANGED <<kind, start, queue, produced, loopOwner, clock,
                 exited, cleanups, exitPath, abandoned>>

\* The request's task is cancelled at its await (client gone, shutdown):
\* CancelledError passes every `except Exception`, so no clause of the
\* handler runs.  A call still queued is cancelled with it; a running one
\* cannot be.
Cancel(j) ==
  /\ ~exited
  /\ LoopFree
  /\ pc[j] = "awaiting"
  /\ pc' = [pc EXCEPT ![j] = "cancelled"]
  /\ IF fut[j] = "queued"
       THEN /\ fut' = [fut EXCEPT ![j] = "cancelled"]
            /\ queue' = Remove(queue, j)
       ELSE UNCHANGED <<fut, queue>>
  /\ abandoned' = [abandoned EXCEPT ![j] = fut[j]]
  /\ UNCHANGED <<kind, status, detail, start, fs, result, produced, loopOwner,
                 clock, exited, cleanups, exitPath>>

\* ------------------------------------------------ CleanupFileResponse
\* The framework calls the returned response: super().__call__ starts
\* sending the file.
ResponseBegin(j) ==
  /\ ~exited
  /\ LoopFree
  /\ pc[j] = "responded"
  /\ pc' = [pc EXCEPT ![j] = "transmitting"]
  /\ UNCHANGED <<kind, status, detail, start, fs, queue, fut, result, produced,
                 loopOwner, clock, exited, cleanups, exitPath, abandoned>>

\* super().__call__ ends (sent in full, client gone, send raised), then the
\* finally block (lines 290-300, 414-420).
ResponseEnd(j, exit) ==
  /\ ~exited
  /\ LoopFree
  /\ pc[j] = "transmitting"
  /\ pc' = [pc EXCEPT ![j] = "sent"]
  /\ exitPath' = [exitPath EXCEPT ![j] = exit]
  /\ IF FinallyRuns(exit)
       THEN /\ fs' = ResponseCleanup(fs, j, kind[j]).fs
            /\ cleanups' = [cleanups EXCEPT ![j] = @ + 1]
       ELSE UNCHANGED <<fs, cleanups>>
  /\ UNCHANGED <<kind, status, detail, start, queue, fut, result, produced,
                 loopOwner, clock, exited, abandoned>>

\* ------------------------------------------------ text_to_speech
\* A text: its length and whether text.strip() is empty.
Texts ==
  { [len |-> 0, blank |-> TRUE], [len |-> 3, blank |-> TRUE],
    [len |-> 10, blank |-> FALSE], [len |-> MAX_QR_TEXT + 1, blank |-> FALSE],
    [len |-> MAX_TTS_TEXT, blank |-> FALSE], [len |-> MAX_TTS_TEXT + 1, blank |-> FALSE] }

\* Lines 383-387.
ValidateTtsText(text) ==
  IF text.len > MAX_TTS_TEXT
    THEN HTTPException(400, <<"Text", "too", "long", "(max", "5000", "characters)">>)
  ELSE IF text.blank
    THEN HTTPException(400, <<"Text", "cannot", "be", "empty">>)
  ELSE NoError

\* Lines 379-403: up to the call of tts.save, which blocks the event loop
\* thread it is called on.
TtsBegin(j, text) ==
  /\ CanBegin(j)
  /\ LET v == ValidateTtsText(text)
     IN  IF v.status # 0
           THEN /\ Fail(j, "tts", v)
                /\ UNCHANGED <<fs, loopOwner>>
           ELSE /\ pc' = [pc EXCEPT ![j] = "saving"]
                /\ kind' = [kind EXCEPT ![j] = "tts"]
                /\ fs' = fs \cup {File(temp_file_path(j), clock, 0)}
                /\ loopOwner' = j
                /\ UNCHANGED <<status, detail>>
  /\ UNCHANGED <<start, queue, fut, result, produced, clock, exited, cleanups, exitPath, abandoned>>

\* Lines 403-444: tts.save returns or raises; the handler returns the
\* response or, in `except Exception`, unlinks the temp file.
TtsFinish(j, ok) ==
  /\ ~exited
  /\ pc[j] = "saving" /\ loopOwner = j
  /\ loopOwner' = 0
  /\ IF ok
       THEN /\ pc' = [pc EXCEPT ![j] = "responded"]
            /\ status' = [status EXCEPT ![j] = 200]
            /\ fs' = Unlink(fs, temp_file_path(j)) \cup {File(temp_file_path(j), clock, 10)}
            /\ UNCHANGED detail
       ELSE /\ pc' = [pc EXCEPT ![j] = "failed"]
            /\ status' = [status EXCEPT ![j] = 500]
            /\ detail' = [detail EXCEPT ![j] = <<"Failed", "to", "generate", "speech">>]
            /\ fs' = IF Exists(fs, temp_file_path(j)) THEN Unlink(fs, temp_file_path(j)) ELSE fs
  /\ UNCHANGED <<kind, start, queue, fut, result, produced, clock, exited,
                 cleanups, exitPath, abandoned>>

\* ------------------------------------------------ generate_qr_code
\* Lines 344-348.
ValidateQrText(text) ==
  IF text.len > MAX_QR_TEXT
    THEN HTTPException(400, <<"Text", "too", "long", "(max", "2000", "characters)">>)
  ELSE IF text.blank
    THEN HTTPException(400, <<"Text", "cannot", "be", "empty">>)
  ELSE NoError

\* Lines 341-358: up to the rendering, which runs on the event loop thread.
QrBegin(j, text) ==
  /\ CanBegin(j)
  /\ LET v == ValidateQrText(text)
     IN  IF v.status # 0
           THEN /\ Fail(j, "qr", v)
                /\ UNCHANGED loopOwner
           ELSE /\ pc' = [pc EXCEPT ![j] = "rendering"]
                /\ kind' = [kind EXCEPT ![j] = "qr"]
                /\ loopOwner' = j
                /\ UNCHANGED <<status, detail>>
  /\ UNCHANGED <<start, fs, queue, fut, result, produced, clock, exited,
                 cleanups, exitPath, abandoned>>

\* Lines 358-374: the image is made and streamed, or the failure is a 500.
QrFinish(j, ok) ==
  /\ ~exited
  /\ pc[j] = "rendering" /\ loopOwner = j
  /\ loopOwner' = 0
  /\ pc' = [pc EXCEPT ![j] = IF ok THEN "finished" ELSE "failed"]
  /\ status' = [status EXCEPT ![j] = IF ok THEN 200 ELSE 500]
  /\ detail' = [detail EXCEPT ![j] =
                  IF ok THEN <<>> ELSE <<"Failed", "to", "generate", "QR", "code">>]
  /\ UNCHANGED <<kind, start, fs, queue, fut, result, produced, clock, exited,
                 cleanups, exitPath, abandoned>>

\* ------------------------------------------------ remove_background
\* An upload: its content type (<<>> when absent) and the length of its body.
Uploads ==
  { [content_type |-> <<>>, len |-> 10],
    [content_type |-> <<"text/", "plain">>, len |-> 10],
    [content_type |-> <<"image/", "png">>, len |-> 10],
    [content_type |-> <<"image/", "png">>, len |-> MAX_UPLOAD],
    [content_type |-> <<"image/", "jpeg">>, len |-> MAX_UPLOAD + 1],
    [content_type |-> <<"image/", "webp">>, len |-> 10] }

valid_formats ==
  { <<"image/", "jpeg">>, <<"image/", "jpg">>, <<"image/", "png">>,
    <<"image/", "gif">>, <<"image/", "bmp">> }

\* Lines 452-463.
ValidateUpload(file) ==
  IF file.content_type = <<>> \/ ~StartsWith(file.content_type, {"image/"})
    THEN HTTPException(400, <<"Only", "image", "files", "are", "allowed">>)
  ELSE IF file.len > MAX_UPLOAD
    THEN HTTPException(400, <<"File", "too", "large", "(max", "10MB)">>)
  ELSE IF file.content_type \notin valid_formats
    THEN HTTPException(400, <<"Unsupported", "image", "format">>)
  ELSE NoError

\* Lines 449-467: up to the await of run_in_executor.
RembgBegin(j, file) ==
  /\ CanBegin(j)
  /\ LET v == ValidateUpload(file)
     IN  IF v.status # 0
           THEN /\ Fail(j, "rembg", v)
                /\ UNCHANGED <<queue, fut>>
           ELSE /\ pc' = [pc EXCEPT ![j] = "awaiting"]
                /\ kind' = [kind EXCEPT ![j] = "rembg"]
                /\ queue' = Append(queue, j)
                /\ fut' = [fut EXCEPT ![j] = "queued"]
                /\ UNCHANGED <<status, detail>>
  /\ UNCHANGED <<start, fs, result, produced, loopOwner, clock, exited,
                 cleanups, exitPath, abandoned>>

\* rembg's remove runs to its end on the worker thread.
WorkerRemove(j, ok) ==
  /\ ~exited
  /\ fut[j] = "running" /\ kind[j] = "rembg"
  /\ fut' = [fut EXCEPT ![j] = "done"]
  /\ result' = [result EXCEPT ![j] =
                  IF pc[j] = "cancelled" THEN NoResult
                  ELSE [raised |-> ~ok,
                        msg |-> IF ok THEN <<>> ELSE <<"cannot", "identify", "image">>]]
  /\ UNCHANGED <<pc, kind, status, detail, start, fs, queue, produced, loopOwner,
                 clock, exited, cleanups, exitPath, abandoned>>

\* Lines 467-479: the result is streamed, or the failure is a 500.
RembgResume(j) ==
  /\ ~exited
  /\ LoopFree
  /\ pc[j] = "awaiting" /\ kind[j] = "rembg" /\ fut[j] = "done"
  /\ pc' = [pc EXCEPT ![j] = IF result[j].raised THEN "failed" ELSE "finished"]
  /\ status' = [status EXCEPT ![j] = IF result[j].raised THEN 500 ELSE 200]
  /\ detail' = [detail EXCEPT ![j] =
                  IF result[j].raised THEN <<"Failed", "to", "remove", "background">> ELSE <<>>]
  /\ fut' = [fut EXCEPT ![j] = "none"]
  /\ result' = [result EXCEPT ![j] = NoResult]
  /\ UNCHANGED <<kind, start, fs, queue, produced, loopOwner, clock,
                 exited, cleanups, exitPath, abandoned>>

\* ------------------------------------------------ health_check
\* Lines 175-182.
HealthCheck(j) ==
  /\ CanBegin(j)
  /\ pc' = [pc EXCEPT ![j] = "finished"]
  /\ kind' = [kind EXCEPT ![j] = "health"]
  /\ status' = [status EXCEPT ![j] = 200]
  /\ UNCHANGED <<detail, start, fs, queue, fut, result, produced, loopOwner,
                 clock, exited, cleanups, exitPath, abandoned>>

\* ------------------------------------------------ time and exit
\* Time passes.  The clock is moved only while something can read it: a
\* download whose deadline check is still to come (line 242), a file the
\* sweep may find too young (line 547).
DeadlinePending == \E j \in Reqs : kind[j] = "download" /\ pc[j] = "awaiting"
AgePending == \E e \in fs : Len(e.path) = 1 /\ e.type = "file"

Tick ==
  /\ ~exited
  /\ DeadlinePending \/ AgePending
  /\ clock + TickStep <= MaxTicks * TickStep
  /\ clock' = clock + TickStep
  /\ UNCHANGED <<pc, kind, status, detail, start, fs, queue, fut, result,
                 produced, loopOwner, exited, cleanups, exitPath, abandoned>>

\* The interpreter exits: no handler is mid-flight, the worker threads have
\* been joined, and atexit runs cleanup_temp_files (line 560).
Quiescent ==
  /\ LoopFree
  /\ \A j \in Reqs : pc[j] \notin {"awaiting", "saving", "rendering", "transmitting"}
  /\ \A j \in Reqs : fut[j] \notin {"queued", "running"}

Exit ==
  /\ ~exited
  /\ Quiescent
  /\ exited' = TRUE
  /\ fs' = cleanup_temp_files(fs, clock)
  /\ UNCHANGED <<pc, kind, status, detail, start, queue, fut, result, produced,
                 loopOwner, clock, cleanups, exitPath, abandoned>>

Next ==
  \/ \E j \in Reqs, url \in Urls : DownloadBegin(j, url)
  \/ \E j \in Reqs : WorkerStart(j)
  \/ \E j \in Reqs, in \in WorkInputs : WorkerDownload(j, in)
  \/ \E j \in Reqs, copy \in {"ok", "mktemp_fails", "copy_fails"} : DownloadResume(j, copy)
  \/ \E j \in Reqs : Cancel(j)
  \/ \E j \in Reqs : ResponseBegin(j)
  \/ \E j \in Reqs, exit \in {"complete", "disconnect", "send_error"} : ResponseEnd(j, exit)
  \/ \E j \in Reqs, text \in Texts : TtsBegin(j, text)
  \/ \E j \in Reqs, ok \in BOOLEAN : TtsFinish(j, ok)
  \/ \E j \in Reqs, text \in Texts : QrBegin(j, text)
  \/ \E j \in Reqs, ok \in BOOLEAN : QrFinish(j, ok)
  \/ \E j \in Reqs, file \in Uploads : RembgBegin(j, file)
  \/ \E j \in Reqs, ok \in BOOLEAN : WorkerRemove(j, ok)
  \/ \E j \in Reqs : RembgResume(j)
  \/ \E j \in Reqs : HealthCheck(j)
  \/ Tick
  \/ Exit

Spec == Init /\ [][Next]_vars

\* ================================================= properties
FileJob(j) == kind[j] \in {"download", "tts"}
HasOutcome(j) == pc[j] \in {"failed", "responded", "transmitting", "sent", "finished"}
NoArtifacts(j) == ~Exists(fs, tmpdir(j)) /\ ~Exists(fs, temp_file_path(j))

\* C1: once the handler of a download or text-to-speech request has returned
\* or raised, the request's workspace directory and response temp file do
\* not exist, unless the request succeeded and its response's cleanup has
\* not run yet.
C1_NoArtifactsAfterHandler ==
  \A j \in Reqs :
    (FileJob(j) /\ pc[j] \in {"failed", "cancelled", "sent"}) => NoArtifacts(j)

\* The grace period, in seconds, within which C2 wants the Timeout outcome.
Grace == 30

\* C2: a download whose work function is still running more than
\* DEADLINE + Grace seconds after the request started has had its Timeout
\* outcome (408) handed to the caller, who has not abandoned the request:
\* the outcome does not wait for the work function to return.
C2_TimeoutWithinGrace ==
  \A j \in Reqs :
    (/\ kind[j] = "download" /\ fut[j] = "running" /\ pc[j] # "cancelled"
     /\ clock - start[j] > DEADLINE + Grace)
    => (pc[j] = "failed" /\ status[j] = 408)

C4_PoolBound == Cardinality(Running) <= max_workers

C4_Witness ==
  /\ Cardinality(Running) = max_workers
  /\ \E j \in Reqs : fut[j] = "queued" /\ pc[j] = "awaiting"

\* C5: while the blocking work of a request is in progress (on a worker
\* thread, or in tts.save or the QR rendering), the event loop is free to run
\* another request's handler.
BlockingWorkInProgress(j) == fut[j] = "running" \/ pc[j] \in {"saving", "rendering"}

C5_LoopNotBlocked == \A j \in Reqs : BlockingWorkInProgress(j) => LoopFree

\* C6: the workspace of a download abandoned while its work function was
\* running is removed in the end: it is not there once the process has
\* exited and the atexit sweep has run.
C6_AbandonedWorkspaceRemoved ==
  \A j \in Reqs :
    (exited /\ kind[j] = "download" /\ pc[j] = "cancelled" /\ abandoned[j] = "running")
      => ~Exists(fs, tmpdir(j))

\* C7: the temp file of a successful response exists until its transmission
\* has ended, and once it has ended, however it ended, the cleanup block has
\* run exactly once and neither the temp file nor the workspace exists.
C7_CleanupAfterTransmission ==
  \A j \in Reqs :
    /\ (FileJob(j) /\ pc[j] = "transmitting") => IsFile(fs, temp_file_path(j))
    /\ (FileJob(j) /\ pc[j] = "responded" /\ ~exited) => IsFile(fs, temp_file_path(j))
    /\ (FileJob(j) /\ pc[j] = "sent") => (cleanups[j] = 1 /\ NoArtifacts(j))
    /\ pc[j] # "sent" => cleanups[j] = 0

C7_Witness ==
  \E j \in Reqs :
    /\ kind[j] = "download" /\ pc[j] = "sent" /\ exitPath[j] = "disconnect"
    /\ cleanups[j] = 1 /\ NoArtifacts(j)

\* C8: when a successful download's response is never sent, the sweep at
\* exit has removed both its temp file and its workspace directory.
C8_SweepReclaims ==
  \A j \in Reqs :
    (exited /\ kind[j] = "download" /\ pc[j] = "responded") => NoArtifacts(j)

\* The categories download_video knows by a word of the message.
MatchesKnownCategory(msg) ==
  \E w \in { <<"timeout">>, <<"too", "large">>, <<"too", "long">>, <<"unavailable">>,
              <<"unsupported">>, <<"copyright">> } : Contains(w, LowerStr(msg))

\* C9: a failure of the download work function is turned, when the handler
\* takes it from the future, into one failure of the taxonomy, and one whose
\* message matches no known category reaches the caller as a 500 whose
\* detail does not carry the message.
C9_UnmatchedIsInternal ==
  [][\A j \in Reqs :
      (/\ kind[j] = "download" /\ pc[j] = "awaiting" /\ result[j].raised
       /\ pc'[j] \notin {"awaiting", "cancelled"})
      => /\ pc'[j] = "failed"
         /\ status'[j] \in {400, 403, 404, 408, 413, 500}
         /\ ~MatchesKnownCategory(result[j].msg)
              => (status'[j] = 500 /\ ~Contains(result[j].msg, detail'[j]))]_vars

\* C10: running the cleanup block of a response again changes no file and
\* raises nothing: on every file system the program reaches, two runs leave
\* what one run leaves, and after the block has run another run leaves the
\* file system as it is.
C10_CleanupIdempotent ==
  \A j \in Reqs :
    FileJob(j) =>
      LET once == ResponseCleanup(fs, j, kind[j])
          twice == ResponseCleanup(once.fs, j, kind[j])
      IN  /\ ~once.raised /\ ~twice.raised
          /\ twice.fs = once.fs
          /\ pc[j] = "sent" => once.fs = fs

C10_Witness ==
  \E j \in Reqs :
    /\ kind[j] = "download" /\ pc[j] = "sent" /\ cleanups[j] = 1
    /\ ResponseCleanup(fs, j, kind[j]).fs = fs

\* What C11 calls a request that fails validation, per endpoint.
BlockedHosts == {"facebook.com", "tiktok.com"}
FailsUrlValidation(url) ==
  \/ Len(url) = 0
  \/ url[1] \notin {"http://", "https://"}
  \/ \E i \in DOMAIN url : Lower(url[i]) \in BlockedHosts
FailsTextValidation(text, max) == text.blank \/ text.len > max
FailsUploadValidation(file) ==
  \/ file.content_type = <<>>
  \/ file.content_type[1] # "image/"
  \/ file.len > MAX_UPLOAD
  \/ file.content_type \notin valid_formats

\* The step rejects request j and submits, starts and creates nothing.
RejectedBeforeSubmission(j) ==
  /\ pc'[j] = "failed"
  /\ status'[j] = 400
  /\ UNCHANGED <<fs, queue, fut, result, produced, loopOwner>>

\* C11: the step in which a handler is given a request that fails validation
\* (URL without http:// or https://, URL with a blocked host, empty or
\* over-long text, upload that is no image, over 10 MB or not allow-listed)
\* rejects it with a 400 and does nothing else: no call is queued on the
\* executor, no worker thread is taken, no work function or blocking call
\* starts, and no directory or file is created.
C11_RejectedBeforeSubmission ==
  [][\A j \in Reqs :
      /\ \A url \in Urls :
           (DownloadBegin(j, url) /\ FailsUrlValidation(url)) => RejectedBeforeSubmission(j)
      /\ \A text \in Texts :
           /\ (TtsBegin(j, text) /\ FailsTextValidation(text, MAX_TTS_TEXT))
                => RejectedBeforeSubmission(j)
           /\ (QrBegin(j, text) /\ FailsTextValidation(text, MAX_QR_TEXT))
                => RejectedBeforeSubmission(j)
      /\ \A file \in Uploads :
           (RembgBegin(j, file) /\ FailsUploadValidation(file))
             => RejectedBeforeSubmission(j)]_vars

\* Three requests rejected by validation, one per endpoint that queues or
\* writes: nothing of theirs is queued, running or on disk.
C11_Witness ==
  \E i, j, k \in Reqs :
    /\ kind[i] = "download" /\ pc[i] = "failed"
    /\ detail[i] = <<"This", "platform", "is", "not", "supported">>
    /\ kind[j] = "tts" /\ pc[j] = "failed" /\ detail[j] = <<"Text", "cannot", "be", "empty">>
    /\ kind[k] = "rembg" /\ pc[k] = "failed"
    /\ detail[k] = <<"File", "too", "large", "(max", "10MB)">>
    /\ \A r \in {i, j, k} : fut[r] = "none" /\ NoArtifacts(r) /\ produced[r] = NotProduced
    /\ queue = <<>> /\ fs = {}

\* The statuses of the failures download_video raises.
FailureCodes == {400, 403, 404, 408, 413, 500}
SuccessPcs == {"responded", "transmitting", "sent"}

\* The step hands the caller of download j one outcome: the response, or one
\* HTTPException, and leaves no call of j on the executor.
GivesOneOutcome(j) ==
  LET success == /\ pc'[j] = "responded" /\ status'[j] = 200 /\ detail'[j] = <<>>
                 /\ IsFile(fs', temp_file_path(j))
      failure == pc'[j] = "failed" /\ status'[j] \in FailureCodes /\ detail'[j] # <<>>
  IN  /\ success \/ failure
      /\ ~(success /\ failure)
      /\ fut'[j] = "none"
      /\ \A i \in DOMAIN queue' : queue'[i] # j

\* The step leaves the outcome of download j what it is and submits nothing
\* for j.
KeepsOutcome(j) ==
  /\ status'[j] = status[j] /\ detail'[j] = detail[j]
  /\ pc[j] = "failed" => pc'[j] = "failed"
  /\ pc[j] \in SuccessPcs => pc'[j] \in SuccessPcs
  /\ fut'[j] = "none"
  /\ \A i \in DOMAIN queue' : queue'[i] # j

\* C12: when the handler of a download takes the finished work function's
\* result from the future, the caller gets exactly one outcome, the success
\* response (200) or one failure with a status of the taxonomy, never a
\* mixture and never nothing; from then on the outcome does not change, and
\* the work function is submitted once per request, when the handler
\* starts, and started once, never again after it has finished.
C12_ExactlyOneOutcome ==
  [][\A j \in Reqs :
      kind'[j] = "download" =>
        /\ fut'[j] = "queued" => (fut[j] = "queued" \/ pc[j] = "idle")
        /\ fut'[j] = "running" => fut[j] \in {"queued", "running"}
        /\ (pc[j] = "awaiting" /\ fut[j] = "done" /\ pc'[j] \notin {"awaiting", "cancelled"})
             => GivesOneOutcome(j)
        /\ pc[j] = "awaiting" /\ fut[j] # "done" => pc'[j] \in {"awaiting", "cancelled"}
        /\ HasOutcome(j) => KeepsOutcome(j)]_vars

\* A download whose file is exactly at the size ceiling and whose handler
\* resumed within the deadline: the caller got the 200 response, sent in
\* full, and nothing of the request is left on the executor.
C12_Witness ==
  \E j \in Reqs :
    /\ kind[j] = "download" /\ pc[j] = "sent" /\ exitPath[j] = "complete"
    /\ status[j] = 200 /\ detail[j] = <<>>
    /\ produced[j].size = SIZE_LIMIT
    /\ fut[j] = "none"

====
